---- MODULE Spec2Model ----
(***************************************************************************)
(* Cursor pagination of furiousapi-beanie (src/furiousapi/beanie/          *)
(* pagination.py) driven by the client loop of                             *)
(* tests/test_repository.py::test_list_with_sorting_and_filter.            *)
(*                                                                         *)
(* The document store is MongoDB (beanie is a MongoDB ODM).  Its query     *)
(* semantics are modelled as documented for MongoDB: in the BSON           *)
(* comparison order null sorts before every number, $gt / $lt only match   *)
(* values of the operand's own type (type bracketing), {f: null} matches   *)
(* the documents whose f is null and {f: {$ne: null}} the others.          *)
(***************************************************************************)
EXTENDS Integers, Sequences, FiniteSets, TLC

\* ------------------------------------------------------------------ bounds
NumDocs == 3
MaxLimit == 3
MaxBulk == 3

\* ------------------------------------------------------------- data model
\* Python's None (a null field value, an absent index).
None == -1

\* MyModel of the tests: id (unique), a non-nullable int with ties
\* (float_number / int_number) and nullable: Optional[int].
IntValues == {1, 2}
NullableValues == {None, 1}
DocIds == 1..NumDocs
FieldNames == {"id", "a", "n"}

\* SortingDirection and its inversion (~field).
ASCENDING == "ASC"
DESCENDING == "DESC"
InvertDirection(direction) == IF direction = ASCENDING THEN DESCENDING ELSE ASCENDING

SortableField(name, direction) == [name |-> name, direction |-> direction]
Invert(field) == SortableField(field.name, InvertDirection(field.direction))

Min2(x, y) == IF x < y THEN x ELSE y
Max2(x, y) == IF x > y THEN x ELSE y

VARIABLES
    store,      \* the collection: a set of documents [id, a, n]
    sorting,    \* the caller's sort list (sequence of SortableField)
    filtering,  \* the caller's base filter: a sequence of [field, value] equalities
    limit,      \* page size of the session
    reversed,   \* the paginator's reversed attribute
    next_,      \* the client's cursor token (<<>> is None)
    call,       \* the last get_page call: its PaginatedResponse and its locals
    result,     \* ids of the items the client collected so far
    pc,         \* "start", "paging", "reuse", "resumed", "done", "failed"
    strategy,   \* the requested pagination strategy (pagination_type)
    crud,       \* the last exists / add / bulk_create call and its outcome
    unique_keys,    \* the keys of the model's unique index (<<>>: none)
    projection,     \* the caller's projection list (<<>>: none)
    returned_model, \* the fields of the items of the last page
    calls,          \* the number of list calls the client loop has made
    requests        \* concurrent list calls in flight, by requester (<<>>: none)

vars == <<store, sorting, filtering, limit, reversed, next_, call, result, pc, strategy, crud,
          unique_keys, projection, returned_model, calls, requests>>

\* ------------------------------------------------------- query predicates
\* beanie find operators as expression trees.
Leaf(op, field, value, isTuple) ==
    [op |-> op, field |-> field, value |-> value, isTuple |-> isTuple, args |-> <<>>]
GT(field, value) == Leaf("GT", field, value, FALSE)
LT(field, value) == Leaf("LT", field, value, FALSE)
Eq(field, value) == Leaf("EQ", field, value, FALSE)
NE(field, value) == Leaf("NE", field, value, FALSE)
Or(args) == [op |-> "Or", field |-> "", value |-> None, isTuple |-> FALSE, args |-> args]
And(args) == [op |-> "And", field |-> "", value |-> None, isTuple |-> FALSE, args |-> args]

\* MongoDB's evaluation of a query document against a stored document.
RECURSIVE Matches(_, _)
Matches(pred, d) ==
    CASE pred.op = "Or" -> \E i \in 1..Len(pred.args) : Matches(pred.args[i], d)
      [] pred.op = "And" -> \A i \in 1..Len(pred.args) : Matches(pred.args[i], d)
      [] pred.op = "GT" ->
            ~pred.isTuple /\ pred.value # None /\ d[pred.field] # None
            /\ d[pred.field] > pred.value
      [] pred.op = "LT" ->
            ~pred.isTuple /\ pred.value # None /\ d[pred.field] # None
            /\ d[pred.field] < pred.value
      [] pred.op = "EQ" -> ~pred.isTuple /\ d[pred.field] = pred.value
      [] pred.op = "NE" -> pred.isTuple \/ d[pred.field] # pred.value

\* BSON comparison order used by sort(): null before every number.
BsonLess(x, y) == x # y /\ (x = None \/ (y # None /\ x < y))

\* d1 is sorted before d2 by sort(*sort).
SortsBefore(d1, d2, sort) ==
    \E i \in 1..Len(sort) :
        /\ \A j \in 1..(i - 1) : d1[sort[j].name] = d2[sort[j].name]
        /\ IF sort[i].direction = ASCENDING
              THEN BsonLess(d1[sort[i].name], d2[sort[i].name])
              ELSE BsonLess(d2[sort[i].name], d1[sort[i].name])

\* find(...).sort(*sort).to_list(): the matching documents in sort order.
\* Every sort ends in or includes the unique id, so the order is total.
SortedList(docs, sort) ==
    [i \in 1..Cardinality(docs) |->
        CHOOSE d \in docs : Cardinality({e \in docs : SortsBefore(e, d, sort)}) = i - 1]

\* to_list() of a query with limit(n); limit(0) is no limit.
Limited(list, n) == IF n = 0 THEN list ELSE SubSeq(list, 1, Min2(n, Len(list)))

\* Python's list[:n] (a negative n counts from the end).
SliceTo(list, n) ==
    IF n >= 0
        THEN SubSeq(list, 1, Min2(n, Len(list)))
        ELSE SubSeq(list, 1, Max2(Len(list) + n, 0))

\* ------------------------------------------------------------ cursor codec
\* A cursor is one (field name, serialized value) pair per sort field.  A
\* serialized value is None or the text of the value.
SerializedNone == [isNone |-> TRUE, text |-> 0]
Serialize(v) == IF v = None THEN SerializedNone ELSE [isNone |-> FALSE, text |-> v]

\* make_cursor(item, field_orderings): the cursor of one item.
make_cursor(item, field_orderings) ==
    [i \in 1..Len(field_orderings) |->
        [name |-> field_orderings[i].name,
         value |-> Serialize(item[field_orderings[i].name])]]

\* make_cursors(items, field_orderings): one cursor per item.
make_cursors(items, field_orderings) ==
    [k \in 1..Len(items) |-> make_cursor(items[k], field_orderings)]

\* parse_cursor(next_, field_orderings): None stays None (<<>>); a cursor
\* of another arity than the sort specification, or naming a field that is
\* not in it, is rejected.
parse_cursor(token, field_orderings) ==
    IF token = <<>>
        THEN [error |-> "", cursor |-> <<>>]
        ELSE IF \/ Len(token) # Len(field_orderings)
                \/ \E i \in 1..Len(token) :
                       \A j \in 1..Len(field_orderings) : token[i].name # field_orderings[j].name
                THEN [error |-> "MalformedCursorError", cursor |-> <<>>]
                ELSE [error |-> "", cursor |-> token]

\* get_request_cursor(next_, field_orderings) of the simple cursor
\* paginator: the same parse.
get_request_cursor(token, field_orderings) == parse_cursor(token, field_orderings)

\* _convert_sort: fails for a field that is no attribute of the model.
_convert_sort(field_orderings) ==
    IF \E i \in 1..Len(field_orderings) : field_orderings[i].name \notin FieldNames
        THEN [error |-> "InvalidEnumFieldError", sort |-> <<>>]
        ELSE [error |-> "", sort |-> field_orderings]

\* get_field_orderings(): the sort list, followed by the id field when the
\* list does not name it, in the direction of the last listed field.
get_field_orderings(sort) ==
    IF \E i \in 1..Len(sort) : sort[i].name = "id"
        THEN sort
        ELSE Append(sort, SortableField("id",
                 IF Len(sort) = 0 THEN ASCENDING ELSE sort[Len(sort)].direction))

\* ----------------------------------------------------------- type hints
id_fields == {"id"}

\* get_type_hints(model)[column]: Document.id is Optional[PydanticObjectId],
\* MyModel.a is int, MyModel.n is Optional[int].
get_model_field_hint(column) ==
    CASE column = "id" -> [origin |-> "Union", type |-> "", args |-> <<"PydanticObjectId", "NoneType">>]
      [] column = "a" -> [origin |-> "", type |-> "int", args |-> <<>>]
      [] column = "n" -> [origin |-> "Union", type |-> "", args |-> <<"int", "NoneType">>]

mapping == {"datetime", "int", "float", "PydanticObjectId", "bool"}

\* cast(column_type, value): the serialized value converted by the mapping
\* entry of the hinted type; None stays None.
cast(column_type, value) ==
    IF column_type.origin = "Union"
        THEN IF \E i \in 1..Len(column_type.args) : column_type.args[i] \in mapping
                THEN (IF value.isNone THEN None ELSE value.text)
                ELSE value.text
        ELSE IF column_type.type \in mapping
                THEN (IF value.isNone THEN None ELSE value.text)
                ELSE value.text

\* -------------------------------------------------------- filter builder
\* An operand of a comparison: a cast value, or the raw (name, value)
\* cursor pair itself (an array operand for the store).
Scalar(v) == [value |-> v, isTuple |-> FALSE]
RawCursorPair == [value |-> None, isTuple |-> TRUE]

set_operator(column, operand, direction) ==
    IF direction = ASCENDING
        THEN Leaf("GT", column, operand.value, operand.isTuple)
        ELSE Leaf("LT", column, operand.value, operand.isTuple)

_handle_nullable(column, value, direction, is_nullable) ==
    IF is_nullable
        THEN Or(<<Eq(column, None), set_operator(column, Scalar(value), direction)>>)
        ELSE set_operator(column, Scalar(value), direction)

\* any(issubclass(i, NoneType) for i in get_args(hint) if name not in id_fields)
IsNullable(name) ==
    LET hint == get_model_field_hint(name)
    IN  \E i \in 1..Len(hint.args) : hint.args[i] = "NoneType" /\ name \notin id_fields

_prepare_current_clause(column, direction, cursor, is_index_query) ==
    LET hint == get_model_field_hint(cursor.name)
        value == cast(hint, cursor.value)
        is_nullable == IsNullable(cursor.name)
    IN  IF direction = ASCENDING
            THEN IF value = None
                    THEN IF is_index_query
                            THEN Or(<<NE(column, value), GT(column, value)>>)
                            ELSE GT(column, value)
                    ELSE _handle_nullable(column, value, ASCENDING, is_nullable)
            ELSE IF value = None
                    THEN Or(<<NE(column, None), LT(column, value)>>)
                    ELSE LT(column, value)

\* column_cursors: sequence of [column, direction, cursor].  Only called
\* with a non-empty list (the empty case returns None in the code).
get_previous_clause(column_cursors) ==
    And([i \in 1..Len(column_cursors) |->
        LET cc == column_cursors[i]
            value == cast(get_model_field_hint(cc.cursor.name), cc.cursor.value)
        IN  IF cc.cursor.name \notin id_fields
                THEN Eq(cc.column, value)
                ELSE set_operator(cc.column, RawCursorPair, cc.direction)])

get_filter_clause(column_cursors, is_index_query) ==
    LET n == Len(column_cursors)
        last == column_cursors[n]
        current_clause ==
            _prepare_current_clause(last.column, last.direction, last.cursor, is_index_query)
    IN  IF n = 1
            THEN current_clause
            ELSE And(<<get_previous_clause(SubSeq(column_cursors, 1, n - 1)), current_clause>>)

get_filter(field_orderings, cursor, is_index_query) ==
    LET column_cursors ==
            [i \in 1..Min2(Len(field_orderings), Len(cursor)) |->
                [column |-> field_orderings[i].name,
                 direction |-> field_orderings[i].direction,
                 cursor |-> cursor[i]]]
    IN  Or([i \in 1..Len(column_cursors) |->
            get_filter_clause(SubSeq(column_cursors, 1, i), is_index_query)])

\* ----------------------------------------------------------- the queries
\* A FindMany query object: its filter expressions and its limit (0: none).
FindMany(find_expressions) == [find_expressions |-> find_expressions, limit_number |-> 0]

\* The documents of the collection matching every expression.
Find(docs, expressions) == {d \in docs : Matches(And(expressions), d)}

\* FindMany.count().  Whether count() forwards limit_number to
\* count_documents depends on the installed beanie release: both outcomes
\* are modelled (countAppliesLimit).
Count(docs, query, countAppliesLimit) ==
    LET n == Cardinality(Find(docs, query.find_expressions))
    IN  IF countAppliesLimit /\ query.limit_number # 0
            THEN Min2(n, query.limit_number)
            ELSE n

Reverse(list) == [i \in 1..Len(list) |-> list[Len(list) + 1 - i]]

\* BaseMongoRepository.list: the filtering dict becomes one `where`
\* expression of equalities.
ListQuery(filter) ==
    IF Len(filter) = 0
        THEN FindMany(<<>>)
        ELSE FindMany(<<And([i \in 1..Len(filter) |-> Eq(filter[i].field, filter[i].value)])>>)

\* Faulty variant: the probe compares with >= instead of >.
BeanieLimitPagination_get_page_OffByOne(matches, lim) ==
    LET items == Limited(matches, lim + 1)
    IN  IF Len(items) >= lim
            THEN [items |-> SubSeq(items, 1, lim), has_next_page |-> TRUE, fetched |-> Len(items)]
            ELSE [items |-> items, has_next_page |-> FALSE, fetched |-> Len(items)]

\* BeanieLimitPagination.get_page on the sorted matches of page_query.
BeanieLimitPagination_get_page(matches, lim) ==
    LET items == Limited(matches, lim + 1)
    IN  IF Len(items) > lim
            THEN [items |-> SliceTo(items, lim), has_next_page |-> TRUE, fetched |-> Len(items)]
            ELSE [items |-> items, has_next_page |-> FALSE, fetched |-> Len(items)]

\* Faulty variant: the cursor predicate replaces the caller's filter.
PageExpressions_ReplacesBase(query, field_orderings, cursor_in) ==
    IF cursor_in # <<>>
        THEN <<get_filter(field_orderings, cursor_in, FALSE)>>
        ELSE query.find_expressions

\* The expressions of page_query in get_page.
PageExpressions(query, field_orderings, cursor_in) ==
    IF cursor_in # <<>>
        THEN <<And(<<get_filter(field_orderings, cursor_in, FALSE)>> \o query.find_expressions)>>
        ELSE query.find_expressions

\* The expressions of the counting query of get_page_info.
IndexExpressions(query, field_orderings, cursor) ==
    LET inverted_sorting == [i \in 1..Len(field_orderings) |-> Invert(field_orderings[i])]
        index_filter == get_filter(inverted_sorting, cursor, TRUE)
    IN  IF Len(query.find_expressions) # 0
            THEN <<And(<<index_filter>> \o query.find_expressions)>>
            ELSE <<index_filter>>

\* Faulty variant: the index of an empty page is not reset to None.
get_page_info_KeepsIndex(docs, query, field_orderings, cursor, items, isReversed, countAppliesLimit) ==
    LET total == Count(docs, query, countAppliesLimit)
        counted == Cardinality(Find(docs, IndexExpressions(query, field_orderings, cursor)))
        index == IF cursor # <<>>
                    THEN IF isReversed
                            THEN Max2((total - (counted + 1)) - Len(items), 0)
                            ELSE counted + 1
                    ELSE 0
    IN  [index |-> index, total |-> total,
         counted |-> IF cursor # <<>> THEN counted ELSE 0]

\* Faulty variant: the reverse index subtracts the count without the one
\* added for the cursor's own document.
get_page_info_SubtractsCount(docs, query, field_orderings, cursor, items, isReversed, countAppliesLimit) ==
    LET total == Count(docs, query, countAppliesLimit)
        counted == Cardinality(Find(docs, IndexExpressions(query, field_orderings, cursor)))
        index == IF cursor # <<>>
                    THEN IF isReversed
                            THEN Max2((total - counted) - Len(items), 0)
                            ELSE counted + 1
                    ELSE 0
    IN  [index |-> IF Len(items) = 0 THEN None ELSE index, total |-> total,
         counted |-> IF cursor # <<>> THEN counted ELSE 0]

get_page_info(docs, query, field_orderings, cursor, items, isReversed, countAppliesLimit) ==
    LET total == Count(docs, query, countAppliesLimit)
        counted == Cardinality(Find(docs, IndexExpressions(query, field_orderings, cursor)))
        index == IF cursor # <<>>
                    THEN IF isReversed
                            THEN Max2((total - (counted + 1)) - Len(items), 0)
                            ELSE counted + 1
                    ELSE 0
    IN  [index |-> IF Len(items) = 0 THEN None ELSE index, total |-> total,
         counted |-> IF cursor # <<>> THEN counted ELSE 0]

\* The outcome of a get_page call that raised: no response, and what the
\* call had done before it raised.
Raised(error, filter_built, queries) ==
    [response |-> [items |-> <<>>, next |-> <<>>, index |-> None, total |-> 0],
     locals |-> [cursor_in |-> <<>>, fetched |-> 0, has_next_page |-> FALSE, counted |-> 0,
                 filter_built |-> filter_built, queries |-> queries],
     error |-> error]

\* Faulty variant: the outgoing cursor is taken before the items are put
\* back in the original order.
RelayPage_CursorBeforeReverse(docs, query, field_orderings, lim, cursor_in, isReversed, countAppliesLimit) ==
    LET matches == SortedList(Find(docs, PageExpressions(query, field_orderings, cursor_in)),
                              field_orderings)
        page == BeanieLimitPagination_get_page(matches, lim)
        queryAfter == IF cursor_in # <<>>
                         THEN query
                         ELSE [query EXCEPT !.limit_number = lim + 1]
        items == IF isReversed THEN Reverse(page.items) ELSE page.items
        token_out == IF Len(items) # 0 /\ page.has_next_page
                        THEN make_cursor(page.items[Len(page.items)], field_orderings)
                        ELSE <<>>
        page_info == get_page_info(docs, queryAfter, field_orderings, cursor_in, items,
                                   isReversed, countAppliesLimit)
    IN  [response |-> [items |-> items, next |-> token_out,
                       index |-> page_info.index, total |-> page_info.total],
         locals |-> [cursor_in |-> cursor_in, fetched |-> page.fetched,
                     has_next_page |-> page.has_next_page, counted |-> page_info.counted,
                     filter_built |-> cursor_in # <<>>,
                     queries |-> IF cursor_in # <<>> THEN 3 ELSE 2],
         error |-> ""]

\* The body of get_page after the cursor and the sort were accepted.
\* queries: the page query, the total count and, with a cursor, the index
\* count.
RelayPage(docs, query, field_orderings, lim, cursor_in, isReversed, countAppliesLimit) ==
    LET matches == SortedList(Find(docs, PageExpressions(query, field_orderings, cursor_in)),
                              field_orderings)
        page == BeanieLimitPagination_get_page(matches, lim)
        \* without a cursor page_query is the caller's query object, which
        \* limit(limit + 1) has changed in place
        queryAfter == IF cursor_in # <<>>
                         THEN query
                         ELSE [query EXCEPT !.limit_number = lim + 1]
        items == IF isReversed THEN Reverse(page.items) ELSE page.items
        token_out == IF Len(items) # 0 /\ page.has_next_page
                        THEN make_cursors(items, field_orderings)[Len(items)]
                        ELSE <<>>
        page_info == get_page_info(docs, queryAfter, field_orderings, cursor_in, items,
                                   isReversed, countAppliesLimit)
    IN  [response |-> [items |-> items, next |-> token_out,
                       index |-> page_info.index, total |-> page_info.total],
         locals |-> [cursor_in |-> cursor_in, fetched |-> page.fetched,
                     has_next_page |-> page.has_next_page, counted |-> page_info.counted,
                     filter_built |-> cursor_in # <<>>,
                     queries |-> IF cursor_in # <<>> THEN 3 ELSE 2],
         error |-> ""]

\* Faulty variant: the filter is built from the token as it was sent.
get_page_UsesUnparsedToken(docs, query, sort, lim, token, isReversed, countAppliesLimit) ==
    LET field_orderings == get_field_orderings(sort)
        converted == _convert_sort(field_orderings)
    IN  IF converted.error # ""
            THEN Raised(converted.error, FALSE, 0)
            ELSE RelayPage(docs, query, field_orderings, lim, token,
                           isReversed, countAppliesLimit)

\* Faulty variant: the total is counted before the sort is converted.
get_page_CountsBeforeSort(docs, query, sort, lim, token, isReversed, countAppliesLimit) ==
    LET field_orderings == get_field_orderings(sort)
        parsed == parse_cursor(token, field_orderings)
        converted == _convert_sort(field_orderings)
    IN  IF parsed.error # ""
            THEN Raised(parsed.error, FALSE, 0)
            ELSE IF converted.error # ""
                    THEN Raised(converted.error, FALSE, 1)
                    ELSE RelayPage(docs, query, field_orderings, lim, parsed.cursor,
                                   isReversed, countAppliesLimit)

\* BeanieRelayCursorPagination.get_page.
get_page(docs, query, sort, lim, token, isReversed, countAppliesLimit) ==
    LET field_orderings == get_field_orderings(sort)
        parsed == parse_cursor(token, field_orderings)
        converted == _convert_sort(field_orderings)
    IN  IF parsed.error # ""
            THEN Raised(parsed.error, FALSE, 0)
            ELSE IF converted.error # ""
                    THEN Raised(converted.error, FALSE, 0)
                    ELSE RelayPage(docs, query, field_orderings, lim, parsed.cursor,
                                   isReversed, countAppliesLimit)

\* BeanieCursorPagination.get_page, the simple cursor paginator.
BeanieCursorPagination_get_page(docs, query, sort, lim, token, isReversed, countAppliesLimit) ==
    LET field_orderings == get_field_orderings(sort)
        requested == get_request_cursor(token, field_orderings)
        converted == _convert_sort(field_orderings)
        cursor_in == requested.cursor
        page_query == IF cursor_in # <<>>
                         THEN FindMany(<<And(<<get_filter(field_orderings, cursor_in, FALSE)>>
                                              \o query.find_expressions)>>)
                         ELSE query
        page == BeanieLimitPagination_get_page(
                    SortedList(Find(docs, page_query.find_expressions), field_orderings), lim)
        queryAfter == IF cursor_in # <<>>
                         THEN query
                         ELSE [query EXCEPT !.limit_number = lim + 1]
        items == IF isReversed THEN Reverse(page.items) ELSE page.items
        token_out == IF Len(items) # 0 /\ page.has_next_page
                        THEN make_cursor(items[Len(items)], field_orderings)
                        ELSE <<>>
        page_info == get_page_info(docs, queryAfter, field_orderings, cursor_in, items,
                                   isReversed, countAppliesLimit)
    IN  IF requested.error # ""
            THEN Raised(requested.error, FALSE, 0)
            ELSE IF converted.error # ""
                    THEN Raised(converted.error, FALSE, 0)
                    ELSE [response |-> [items |-> items, next |-> token_out,
                                        index |-> page_info.index, total |-> page_info.total],
                          locals |-> [cursor_in |-> cursor_in, fetched |-> page.fetched,
                                      has_next_page |-> page.has_next_page,
                                      counted |-> page_info.counted,
                                      filter_built |-> cursor_in # <<>>,
                                      queries |-> IF cursor_in # <<>> THEN 3 ELSE 2],
                          error |-> ""]

\* PaginationStrategyEnum and PAGINATION_MAPPING (OFFSET is not registered).
StrategyMembers == {"CURSOR", "OFFSET"}
PAGINATION_MAPPING == {"CURSOR"}
EnumMember(name) == [isEnum |-> TRUE, name |-> name]
StringStrategy(name) == [isEnum |-> FALSE, name |-> name]

\* get_paginator(strategy): a string is looked up by name in the enum
\* (KeyError when it names no member), then the mapping is consulted.
get_paginator(requested) ==
    IF ~requested.isEnum /\ requested.name \notin StrategyMembers
        THEN [error |-> "KeyError", paginator |-> ""]
        ELSE IF requested.name \notin PAGINATION_MAPPING
                THEN [error |-> "FuriousAPIError", paginator |-> ""]
                ELSE [error |-> "", paginator |-> "BeanieRelayCursorPagination"]

\* Entries of a projection list: a member of the repository's field enum,
\* or a sort field that list appended.
ModelField(name) == [enum |-> "fields", name |-> name, direction |-> ""]
SortMember(field) == [enum |-> "sort", name |-> field.name, direction |-> field.direction]

\* i in projection.  How a sort field compares with a member of the field
\* enum is decided by the enum classes: by value (byName), or a sort field
\* equals sort fields only.
InProjection(i, entries, byName) ==
    \E k \in 1..Len(entries) :
        \/ entries[k] = SortMember(i)
        \/ byName /\ entries[k].name = i.name

\* for i in sorting: if projection and i not in projection:
\*     projection.append(i)
RECURSIVE AppendSorting(_, _, _, _)
AppendSorting(entries, sort, byName, k) ==
    IF k > Len(sort)
        THEN entries
        ELSE AppendSorting(IF Len(entries) > 0 /\ ~InProjection(sort[k], entries, byName)
                               THEN Append(entries, SortMember(sort[k]))
                               ELSE entries,
                           sort, byName, k + 1)

\* Faulty variant: the id field is not added for cursor pagination.
list_projection_WithoutId(entries, sort, requested, byName) ==
    LET appended == AppendSorting(entries,
                        IF Len(sort) = 0 /\ requested.name = "CURSOR"
                            THEN <<SortableField("id", ASCENDING)>> ELSE sort,
                        byName, 1)
    IN  [projection |-> appended,
         returned_model |-> IF Len(appended) = 0 THEN FieldNames
                            ELSE {appended[k].name : k \in 1..Len(appended)}]

\* The projection part of BaseMongoRepository.list: the caller's list after
\* the call, and the fields of the model the query is projected to (the
\* names of the list, with id for cursor pagination; the whole model
\* without a projection).
list_projection(entries, sort, requested, byName) ==
    LET appended == AppendSorting(entries,
                        IF Len(sort) = 0 /\ requested.name = "CURSOR"
                            THEN <<SortableField("id", ASCENDING)>> ELSE sort,
                        byName, 1)
    IN  [projection |-> appended,
         returned_model |-> IF Len(appended) = 0 THEN FieldNames
                            ELSE {appended[k].name : k \in 1..Len(appended)}
                                     \cup (IF requested.name = "CURSOR" THEN {"id"} ELSE {})]

\* BaseMongoRepository.list: the paginator is looked up, then asked for
\* the page.
Repository_list(docs, filter, sort, lim, token, isReversed, requested, countAppliesLimit) ==
    LET paginator == get_paginator(requested)
    IN  IF paginator.error # ""
            THEN Raised(paginator.error, FALSE, 0)
            ELSE get_page(docs, ListQuery(filter),
                          IF Len(sort) = 0 THEN <<SortableField("id", ASCENDING)>> ELSE sort,
                          lim, token, isReversed, countAppliesLimit)

\* ------------------------------------------------------------ the program
Documents == [id : DocIds, a : IntValues, n : NullableValues]

\* Collections holding one document per id.
Stores == {s \in SUBSET Documents :
              /\ Cardinality(s) = NumDocs
              /\ \A d1, d2 \in s : d1.id = d2.id => d1 = d2}

Directions == {ASCENDING, DESCENDING}
SortFields == {SortableField(f, dir) : f \in FieldNames, dir \in Directions}

\* Sort lists of at most two distinct fields.
Sortings ==
    {<<>>} \cup {<<f>> : f \in SortFields}
           \cup {<<f, g>> : f \in SortFields, g \in SortFields}

Filterings == {<<>>, <<[field |-> "a", value |-> 1]>>}

NoResponse == [items |-> <<>>, next |-> <<>>, index |-> None, total |-> 0]
NoLocals == [cursor_in |-> <<>>, fetched |-> 0, has_next_page |-> FALSE, counted |-> 0,
             filter_built |-> FALSE, queries |-> 0]
NoOp == [name |-> "", arg |-> <<>>, should_error |-> FALSE, returned |-> <<>>, error |-> ""]

Init ==
    /\ store \in Stores
    /\ sorting \in {s \in Sortings : Len(s) = 2 => s[1].name # s[2].name}
    /\ filtering \in Filterings
    /\ limit \in 1..MaxLimit
    /\ reversed \in BOOLEAN
    /\ next_ = <<>>
    /\ call = [response |-> NoResponse, locals |-> NoLocals, error |-> ""]
    /\ result = <<>>
    /\ pc = "start"
    /\ strategy = EnumMember("CURSOR")
    /\ crud = NoOp
    /\ unique_keys = <<>>
    /\ projection = <<>>
    /\ returned_model = {}
    /\ calls = 0
    /\ requests = <<>>

\* The client loops of the model stop by themselves; the call counter is
\* capped above every loop over NumDocs documents, with and without a
\* change of the sort order.
MaxCalls == 2 * NumDocs + 2

\* One round of the client loop: repository.list(limit, next_) and the
\* handling of its response.
List ==
    /\ pc \in {"start", "paging", "reuse", "resumed"}
    /\ calls < MaxCalls
    /\ calls' = calls + 1
    \* with a cursor the counted query is the caller's untouched query, so
    \* what count() does with a limit makes no difference
    /\ \E countAppliesLimit \in (IF next_ = <<>> THEN BOOLEAN ELSE {FALSE}) :
        call' = Repository_list(store, filtering, sorting, limit, next_, reversed, strategy,
                     countAppliesLimit)
    /\ result' = result \o [i \in 1..Len(call'.response.items) |-> call'.response.items[i].id]
    /\ next_' = IF call'.response.next = <<>> THEN next_ ELSE call'.response.next
    /\ pc' = IF call'.error # "" THEN "failed"
             ELSE IF call'.response.next = <<>> THEN "done"
             ELSE IF pc \in {"reuse", "resumed"} THEN "resumed"
             ELSE "paging"
    \* the sort fields are appended to the caller's projection list before
    \* the paginator is looked up, whatever becomes of the call
    /\ \E byName \in (IF projection = <<>> THEN {FALSE} ELSE BOOLEAN) :
        /\ projection' = list_projection(projection, sorting, strategy, byName).projection
        /\ returned_model' = list_projection(projection, sorting, strategy, byName).returned_model
    /\ UNCHANGED <<store, sorting, filtering, limit, reversed, strategy, crud, unique_keys,
                   requests>>

Next == List

Spec == Init /\ [][Next]_vars

\* ------------------------------------------------ requests that must fail
\* Requests outside the valid ones: a limit that is not positive, a sort
\* field the model does not have, a strategy given as an enum member or as
\* a string, and a token kept while the sort order is changed.
UnknownField == "x"
RequestSortFields == [name : FieldNames \cup {UnknownField}, direction : Directions]
ShortSortings == {<<>>} \cup {<<f>> : f \in RequestSortFields}
KnownShortSortings == {s \in ShortSortings : \A i \in 1..Len(s) : s[i].name \in FieldNames}
InvalidLimits == {-1, 0}
Strategies ==
    {EnumMember(m) : m \in StrategyMembers}
        \cup {StringStrategy(n) : n \in StrategyMembers \cup {"BOGUS"}}

InitRequests ==
    /\ store \in Stores
    /\ filtering = <<>>
    /\ reversed = FALSE
    /\ \/ strategy = EnumMember("CURSOR") /\ limit \in 1..MaxLimit /\ sorting \in ShortSortings
       \/ strategy = EnumMember("CURSOR") /\ limit \in InvalidLimits
            /\ sorting \in KnownShortSortings
       \/ strategy \in Strategies /\ limit \in 1..MaxLimit /\ sorting = <<>>
    /\ next_ = <<>>
    /\ call = [response |-> NoResponse, locals |-> NoLocals, error |-> ""]
    /\ result = <<>>
    /\ pc = "start"
    /\ crud = NoOp
    /\ unique_keys = <<>>
    /\ projection = <<>>
    /\ returned_model = {}
    /\ calls = 0
    /\ requests = <<>>

\* The client changes the sort order between two pages and sends the token
\* of the old order.
ChangeSorting ==
    /\ pc = "paging"
    /\ sorting' \in ShortSortings \ {sorting}
    /\ pc' = "reuse"
    /\ UNCHANGED <<store, filtering, limit, reversed, next_, call, result, strategy, crud,
                   unique_keys, projection, returned_model,
                   calls, requests>>

NextRequests == List \/ ChangeSorting
SpecRequests == InitRequests /\ [][NextRequests]_vars

\* ------------------------------------------------- list with a projection
\* Projection lists of one or two members of the field enum.
Projections ==
    {<<ModelField(f)>> : f \in FieldNames}
        \cup {<<ModelField(pair[1]), ModelField(pair[2])>> :
                    pair \in {fg \in FieldNames \X FieldNames : fg[1] # fg[2]}}

\* The client loop of test_list_with_projection: the same projection list is
\* passed to every call.
InitProjection ==
    /\ store \in Stores
    /\ sorting \in KnownShortSortings
    /\ filtering = <<>>
    /\ limit \in 1..MaxLimit
    /\ reversed = FALSE
    /\ next_ = <<>>
    /\ call = [response |-> NoResponse, locals |-> NoLocals, error |-> ""]
    /\ result = <<>>
    /\ pc = "start"
    /\ strategy = EnumMember("CURSOR")
    /\ crud = NoOp
    /\ unique_keys = <<>>
    /\ projection \in Projections
    /\ returned_model = {}
    /\ calls = 0
    /\ requests = <<>>

SpecProjection == InitProjection /\ [][List]_vars

\* ------------------------------------------- the loop over one more document
\* Collections of NumDocs + 1 documents, one per id.
LoopStores ==
    {{[id |-> i, a |-> f[i].a, n |-> f[i].n] : i \in 1..(NumDocs + 1)} :
        f \in [1..(NumDocs + 1) -> [a : IntValues, n : NullableValues]]}

\* The client loop of test_list_with_sorting_and_filter over such a
\* collection, sorted by at most one field.
InitLoop ==
    /\ store \in LoopStores
    /\ sorting \in KnownShortSortings
    /\ filtering \in Filterings
    /\ limit \in 1..MaxLimit
    /\ reversed = FALSE
    /\ next_ = <<>>
    /\ call = [response |-> NoResponse, locals |-> NoLocals, error |-> ""]
    /\ result = <<>>
    /\ pc = "start"
    /\ strategy = EnumMember("CURSOR")
    /\ crud = NoOp
    /\ unique_keys = <<>>
    /\ projection = <<>>
    /\ returned_model = {}
    /\ calls = 0
    /\ requests = <<>>

SpecLoop == InitLoop /\ [][List]_vars

\* ------------------------------------------------- two requests in flight
\* Two list calls on one repository.  Each call is cut at its awaits: the
\* page query (to_list), the total count and, with a cursor, the index
\* count.  What runs between two awaits is one step.
Requesters == {"r1", "r2"}

\* The sort orders the requests ask for, and the tokens they send: none, or
\* the cursor of the document with id 1 under the sort order of the request.
RequestSortings ==
    {<<>>, <<SortableField("n", ASCENDING)>>, <<SortableField("a", DESCENDING)>>}
RequestOrderings(sort) ==
    get_field_orderings(IF Len(sort) = 0 THEN <<SortableField("id", ASCENDING)>> ELSE sort)
RequestTokens(docs, sort) ==
    {<<>>} \cup {make_cursor(d, RequestOrderings(sort)) : d \in {e \in docs : e.id = 1}}

\* A request that has not started.  countAppliesLimit is what count() of
\* the installed beanie does with a limit, the same for every request.
NewRequest(sort, lim, token, countAppliesLimit) ==
    [pc |-> "idle", sorting |-> sort, limit |-> lim, token |-> token,
     countAppliesLimit |-> countAppliesLimit,
     query |-> FindMany(<<>>), cursor_in |-> <<>>, page |-> <<>>, has_next_page |-> FALSE,
     total |-> 0, response |-> NoResponse, error |-> ""]

\* Collections whose documents differ in the nullable field only.
RequestStores == {s \in Stores : \A d \in s : d.a = 1 + (d.id % 2)}

InitConcurrent ==
    /\ store \in RequestStores
    /\ sorting = <<>>
    /\ filtering = <<>>
    /\ limit = 1
    /\ reversed = FALSE
    /\ next_ = <<>>
    /\ call = [response |-> NoResponse, locals |-> NoLocals, error |-> ""]
    /\ result = <<>>
    /\ pc = "start"
    /\ strategy = EnumMember("CURSOR")
    /\ crud = NoOp
    /\ unique_keys = <<>>
    /\ projection = <<>>
    /\ returned_model = {}
    /\ calls = 0
    /\ \E countAppliesLimit \in BOOLEAN :
          requests \in [Requesters ->
              {NewRequest(sort, lim, token, countAppliesLimit) :
                  sort \in RequestSortings, lim \in 1..MaxLimit,
                  token \in UNION {RequestTokens(store, s) : s \in RequestSortings}}]
    /\ \A r \in Requesters :
          requests[r].token \in RequestTokens(store, requests[r].sorting)

\* Faulty variant: one query object is shared, every request counts with
\* the query of the first requester.
QueryOf_Shared(reqs, r) == reqs["r1"].query

\* The query object of a request: list builds a new FindMany in every call.
QueryOf(reqs, r) == reqs[r].query

\* The frame of the steps of a request: the data and the client loop.
RequestFrame ==
    UNCHANGED <<store, sorting, filtering, limit, reversed, next_, call, result, pc, strategy,
                crud, unique_keys, projection, returned_model, calls>>

\* list and get_page up to the first await: the query is built, the
\* paginator looked up, the cursor parsed, the sort converted, the page
\* query built, and limit(limit + 1) applied to it (to the caller's query
\* itself when there is no cursor).
Begin(r) ==
    LET req == requests[r]
        paginator == get_paginator(strategy)
        field_orderings == RequestOrderings(req.sorting)
        parsed == parse_cursor(req.token, field_orderings)
        converted == _convert_sort(field_orderings)
        query == ListQuery(filtering)
        error == IF paginator.error # "" THEN paginator.error
                 ELSE IF parsed.error # "" THEN parsed.error
                 ELSE converted.error
    IN  /\ req.pc = "idle"
        /\ requests' = [requests EXCEPT ![r] =
              IF error # ""
                  THEN [req EXCEPT !.pc = "failed", !.error = error]
                  ELSE [req EXCEPT !.pc = "page_query",
                                   !.cursor_in = parsed.cursor,
                                   !.query = IF parsed.cursor # <<>>
                                                THEN query
                                                ELSE [query EXCEPT !.limit_number = req.limit + 1]]]
        /\ RequestFrame

\* The page query returns: the items are cut to the limit, the next token
\* is made, and get_page_info starts the total count.
PageQuery(r) ==
    LET req == requests[r]
        field_orderings == RequestOrderings(req.sorting)
        matches == SortedList(
                       Find(store, PageExpressions(QueryOf(requests, r), field_orderings,
                                                   req.cursor_in)),
                       field_orderings)
        page == BeanieLimitPagination_get_page(matches, req.limit)
    IN  /\ req.pc = "page_query"
        /\ requests' = [requests EXCEPT ![r] =
              [req EXCEPT !.pc = "total_count",
                          !.page = page.items,
                          !.has_next_page = page.has_next_page]]
        /\ RequestFrame

\* The response of a request, from its page, the total and the index.
RequestResponse(req, total, index) ==
    [items |-> req.page,
     next |-> IF Len(req.page) # 0 /\ req.has_next_page
                 THEN make_cursors(req.page, RequestOrderings(req.sorting))[Len(req.page)]
                 ELSE <<>>,
     index |-> IF Len(req.page) = 0 THEN None ELSE index,
     total |-> total]

\* The total count returns.  Without a cursor the index is 0 and the
\* response is returned; with a cursor the index count is started.
TotalCount(r) ==
    LET req == requests[r]
        total == Count(store, QueryOf(requests, r), req.countAppliesLimit)
    IN  /\ req.pc = "total_count"
        /\ requests' = [requests EXCEPT ![r] =
              IF req.cursor_in # <<>>
                  THEN [req EXCEPT !.pc = "index_count", !.total = total]
                  ELSE [req EXCEPT !.pc = "done", !.total = total,
                                   !.response = RequestResponse(req, total, 0)]]
        /\ RequestFrame

\* The index count returns, and with it the response.
IndexCount(r) ==
    LET req == requests[r]
        counted == Cardinality(Find(store,
                       IndexExpressions(QueryOf(requests, r), RequestOrderings(req.sorting),
                                        req.cursor_in)))
    IN  /\ req.pc = "index_count"
        /\ requests' = [requests EXCEPT ![r] =
              [req EXCEPT !.pc = "done",
                          !.response = RequestResponse(req, req.total, counted + 1)]]
        /\ RequestFrame

NextConcurrent ==
    \E r \in Requesters : Begin(r) \/ PageQuery(r) \/ TotalCount(r) \/ IndexCount(r)

SpecConcurrent == InitConcurrent /\ [][NextConcurrent]_vars

\* ------------------------------------------------------- exists and add
\* An identifier is an ObjectId or a string; a string that is the hex form
\* of an ObjectId is valid, any other string is not (value 0).
ObjectIdOf(i) == [kind |-> "ObjectId", value |-> i]
StrOf(i) == [kind |-> "str", value |-> i]
Identifiers == {ObjectIdOf(i) : i \in DocIds} \cup {StrOf(i) : i \in DocIds \cup {0}}
PydanticObjectId_is_valid(identifiers) == identifiers.value \in DocIds

\* Faulty variant: a missing document is reported as False even when
\* should_error is set.
Repository_exists_NeverRaises(docs, identifiers, should_error) ==
    LET id_ == IF PydanticObjectId_is_valid(identifiers)
                  THEN ObjectIdOf(identifiers.value)
                  ELSE identifiers
        count == Cardinality({d \in docs : ObjectIdOf(d.id) = id_})
    IN  [store |-> docs, returned |-> <<count > 0>>, error |-> ""]

\* BaseMongoRepository.exists: a valid identifier becomes an ObjectId, the
\* documents with that id are counted.
Repository_exists(docs, identifiers, should_error) ==
    LET id_ == IF PydanticObjectId_is_valid(identifiers)
                  THEN ObjectIdOf(identifiers.value)
                  ELSE identifiers
        count == Cardinality({d \in docs : ObjectIdOf(d.id) = id_})
    IN  IF count > 0
            THEN [store |-> docs, returned |-> <<TRUE>>, error |-> ""]
            ELSE IF should_error
                    THEN [store |-> docs, returned |-> <<>>, error |-> "EntityNotFoundError"]
                    ELSE [store |-> docs, returned |-> <<FALSE>>, error |-> ""]

\* Faulty variant: an entity whose id is stored replaces the stored one.
Repository_add_Replaces(docs, entity) ==
    [store |-> {d \in docs : d.id # entity.id} \cup {entity},
     returned |-> <<entity>>, error |-> ""]

\* BaseMongoRepository.add: insert_one fails with DuplicateKeyError when
\* the id is stored, which add turns into EntityAlreadyExistsError.
Repository_add(docs, entity) ==
    IF \E d \in docs : d.id = entity.id
        THEN [store |-> docs, returned |-> <<>>, error |-> "EntityAlreadyExistsError"]
        ELSE [store |-> docs \cup {entity}, returned |-> <<entity>>, error |-> ""]

\* Collections of any size holding at most one document per id.
PartialStores == {s \in SUBSET Documents : \A d1, d2 \in s : d1.id = d2.id => d1 = d2}

InitCrud ==
    /\ store \in PartialStores
    /\ sorting = <<>>
    /\ filtering = <<>>
    /\ limit = 1
    /\ reversed = FALSE
    /\ next_ = <<>>
    /\ call = [response |-> NoResponse, locals |-> NoLocals, error |-> ""]
    /\ result = <<>>
    /\ pc = "start"
    /\ strategy = EnumMember("CURSOR")
    /\ crud = NoOp
    /\ unique_keys = <<>>
    /\ projection = <<>>
    /\ returned_model = {}
    /\ calls = 0
    /\ requests = <<>>

Exists ==
    \E identifiers \in Identifiers, should_error \in BOOLEAN :
        LET outcome == Repository_exists(store, identifiers, should_error)
        IN  /\ store' = outcome.store
            /\ crud' = [name |-> "exists", arg |-> identifiers, should_error |-> should_error,
                        returned |-> outcome.returned, error |-> outcome.error]
            /\ UNCHANGED <<sorting, filtering, limit, reversed, next_, call, result, pc, strategy,
                           unique_keys, projection, returned_model,
                   calls, requests>>

Add ==
    \E entity \in Documents :
        LET outcome == Repository_add(store, entity)
        IN  /\ store' = outcome.store
            /\ crud' = [name |-> "add", arg |-> entity, should_error |-> FALSE,
                        returned |-> outcome.returned, error |-> outcome.error]
            /\ UNCHANGED <<sorting, filtering, limit, reversed, next_, call, result, pc, strategy,
                           unique_keys, projection, returned_model,
                   calls, requests>>

NextCrud == Exists \/ Add
SpecCrud == InitCrud /\ [][NextCrud]_vars

\* ----------------------------------------------------------- bulk_create
\* The documents of a bulk: an id and the field a, on which the model may
\* have a unique index.
BulkDocuments == {d \in Documents : d.n = None}
Bulks == UNION {[1..n -> BulkDocuments] : n \in 1..MaxBulk}
UniqueIndexes == {<<>>, <<"a">>}

\* A document cannot be written next to one with its _id or with its value
\* of a uniquely indexed key.
Conflicts(d1, d2, keys) ==
    d1.id = d2.id \/ \E i \in 1..Len(keys) : d1[keys[i]] = d2[keys[i]]
BulkStores(keys) ==
    {s \in SUBSET BulkDocuments : \A d1, d2 \in s : Conflicts(d1, d2, keys) => d1 = d2}

\* insert_many(bulk, ordered=False): every document is tried in turn; one
\* that conflicts with the collection, or with a document written earlier
\* in the bulk, is a write error carrying its 0-based index.
RECURSIVE insert_many(_, _, _, _)
insert_many(docs, bulk, keys, k) ==
    IF k > Len(bulk)
        THEN [store |-> docs, inserted_ids |-> <<>>, writeErrors |-> {}]
        ELSE IF \E d \in docs : Conflicts(d, bulk[k], keys)
                THEN LET rest == insert_many(docs, bulk, keys, k + 1)
                     IN  [rest EXCEPT !.writeErrors = @ \cup {k - 1}]
                ELSE LET rest == insert_many(docs \cup {bulk[k]}, bulk, keys, k + 1)
                     IN  [rest EXCEPT !.inserted_ids = <<bulk[k].id>> \o @]

\* The orders in which a set of write errors can be reported.
ErrorOrders(indexes) ==
    {order \in [1..Cardinality(indexes) -> indexes] :
        \A i, j \in 1..Cardinality(indexes) : order[i] = order[j] => i = j}

BulkItemSuccess(id) == [status |-> "OK", id |-> id]
BulkItemError(index) == [status |-> "ERROR", message |-> index]

\* list.insert(i, x) of Python: before position i, at the end when i is
\* beyond it.
InsertAt(items, i, x) ==
    LET k == Min2(i, Len(items))
    IN  SubSeq(items, 1, k) \o <<x>> \o SubSeq(items, k + 1, Len(items))

RECURSIVE InsertErrors(_, _, _)
InsertErrors(items, error_indexes, k) ==
    IF k > Len(error_indexes)
        THEN items
        ELSE InsertErrors(InsertAt(items, error_indexes[k], BulkItemError(error_indexes[k])),
                          error_indexes, k + 1)

\* The members of a sequence at the positions kept, in their order.
Kept(list, kept) ==
    LET nth(i) == CHOOSE k \in kept : Cardinality({j \in kept : j < k}) = i - 1
    IN  [i \in 1..Cardinality(kept) |-> list[nth(i)]]

\* bulk_copy after the failed indexes were popped.
Survivors(bulk, indexes) ==
    Kept(bulk, {k \in 1..Len(bulk) : (k - 1) \notin indexes})

\* _get_bulk_query_by_unique_index: ONE And over the key equalities of
\* every document of the bulk.
_get_bulk_query_by_unique_index(bulk, keys) ==
    <<And([n \in 1..(Len(keys) * Len(bulk)) |->
            Eq(keys[((n - 1) \div Len(bulk)) + 1],
               bulk[((n - 1) % Len(bulk)) + 1][keys[((n - 1) \div Len(bulk)) + 1]])])>>

\* The find queries of bulk_create: by the unique index when the model
\* has one, by id otherwise.
FindQueries(bulk_copy, keys) ==
    IF Len(keys) > 0
        THEN _get_bulk_query_by_unique_index(bulk_copy, keys)
        ELSE [i \in 1..Len(bulk_copy) |-> Eq("id", bulk_copy[i].id)]

\* The OK items: the documents that find(Or(*find_queries)) returns, in
\* the order in which the bulk wrote them.
SuccessResult(docs, bulk_copy, find_queries) ==
    IF Len(find_queries) = 0
        THEN <<>>
        ELSE LET found == Kept(bulk_copy, {k \in 1..Len(bulk_copy) :
                                                Matches(Or(find_queries), bulk_copy[k])})
             IN  [i \in 1..Len(found) |-> BulkItemSuccess(found[i].id)]

\* The outcome of bulk_create without write errors.
AllWritten(written) ==
    [store |-> written.store,
     items |-> [i \in 1..Len(written.inserted_ids) |-> BulkItemSuccess(written.inserted_ids[i])],
     has_errors |-> FALSE, error_indexes |-> <<>>, error |-> ""]

\* BaseMongoRepository.bulk_create.  error_indexes is writeErrors in the
\* order it is reported; the written documents are looked up and the error
\* items are inserted at their indexes, one after the other in that order.
\* With a unique index and no document written the And has no expression,
\* which beanie refuses.
bulk_create(docs, bulk, keys, error_indexes) ==
    LET written == insert_many(docs, bulk, keys, 1)
        bulk_copy == Survivors(bulk, written.writeErrors)
        find_queries == FindQueries(bulk_copy, keys)
    IN  IF written.writeErrors = {}
            THEN AllWritten(written)
            ELSE IF Len(keys) > 0 /\ Len(bulk_copy) = 0
                    THEN [store |-> written.store, items |-> <<>>, has_errors |-> FALSE,
                          error_indexes |-> error_indexes, error |-> "AttributeError"]
                    ELSE [store |-> written.store,
                          items |-> InsertErrors(
                                        SuccessResult(written.store, bulk_copy, find_queries),
                                        error_indexes, 1),
                          has_errors |-> TRUE, error_indexes |-> error_indexes, error |-> ""]

InitBulk ==
    /\ unique_keys \in UniqueIndexes
    /\ store \in BulkStores(unique_keys)
    /\ sorting = <<>>
    /\ filtering = <<>>
    /\ limit = 1
    /\ reversed = FALSE
    /\ next_ = <<>>
    /\ call = [response |-> NoResponse, locals |-> NoLocals, error |-> ""]
    /\ result = <<>>
    /\ pc = "start"
    /\ strategy = EnumMember("CURSOR")
    /\ crud = NoOp
    /\ projection = <<>>
    /\ returned_model = {}
    /\ calls = 0
    /\ requests = <<>>

\* One bulk_create call on each collection.
BulkCreate ==
    /\ crud = NoOp
    /\ \E bulk \in Bulks :
        \E error_indexes \in ErrorOrders(insert_many(store, bulk, unique_keys, 1).writeErrors) :
            /\ crud' = [name |-> "bulk_create", arg |-> bulk, should_error |-> FALSE,
                        returned |-> <<bulk_create(store, bulk, unique_keys, error_indexes)>>,
                        error |-> bulk_create(store, bulk, unique_keys, error_indexes).error]
            /\ store' = crud'.returned[1].store
            /\ UNCHANGED <<sorting, filtering, limit, reversed, next_, call, result, pc, strategy,
                           unique_keys, projection, returned_model,
                   calls, requests>>

NextBulk == BulkCreate
SpecBulk == InitBulk /\ [][NextBulk]_vars

\* ------------------------------------------------- what the claims refer to
\* The sort specification of the session, the documents matching the base
\* filter and their full ordered result set.
Orderings ==
    get_field_orderings(IF Len(sorting) = 0 THEN <<SortableField("id", ASCENDING)>> ELSE sorting)
BaseExpressions == ListQuery(filtering).find_expressions
Matching == Find(store, BaseExpressions)
Ordered == SortedList(Matching, Orderings)
Ids(list) == [i \in 1..Len(list) |-> list[i].id]
Items == call.response.items
Called == pc # "start"
SortsByNullable == \E i \in 1..Len(sorting) : sorting[i].name = "n"

\* C1: forward traversal to the terminal page returns every matching
\* document exactly once, in the order of the sort specification.
C1_TotalOrdering == (~reversed /\ pc = "done") => result = Ids(Ordered)

\* The same traversal property for sort specifications without a nullable
\* field.
TotalOrderingWithoutNullable ==
    (~reversed /\ ~SortsByNullable /\ pc = "done") => result = Ids(Ordered)

\* C2: the filter built from the cursor of entity e matches d exactly when
\* d sorts strictly after e.
C2_FilterIsStrictlyAfter ==
    \A e \in store :
        (Called /\ call.locals.cursor_in = make_cursor(e, Orderings)) =>
            \A d \in store :
                Matches(get_filter(Orderings, call.locals.cursor_in, FALSE), d)
                    <=> SortsBefore(e, d, Orderings)

FilterIsStrictlyAfterWithoutNullable ==
    ~SortsByNullable => C2_FilterIsStrictlyAfter

\* C3: in forward traversal the index of a non-empty page is the number of
\* items returned on the earlier pages, the position of its first item in
\* the full ordered result set.
C3_IndexIsPosition ==
    (~reversed /\ Called /\ Len(Items) > 0) =>
        /\ call.response.index = Len(result) - Len(Items)
        /\ call.response.index < Len(Ordered)
        /\ Ordered[call.response.index + 1] = Items[1]

IndexIsPositionWithoutNullable == ~SortsByNullable => C3_IndexIsPosition

\* C5: forward, next is non-null exactly when a matching document sorts
\* after the last item of the page.
C5_NextIffMore ==
    (~reversed /\ Called) =>
        (call.response.next # <<>>
            <=> /\ Len(Items) > 0
                /\ \E d \in Matching : SortsBefore(Items[Len(Items)], d, Orderings))

NextIffMoreWithoutNullable == ~SortsByNullable => C5_NextIffMore

\* C6: total is the number of documents matching the base query.
C6_TotalIsBaseCount == Called => call.response.total = Cardinality(Matching)

\* C7: index is null exactly when the page has no items, and non-negative
\* otherwise.
C7_IndexNullIffEmpty ==
    Called =>
        /\ (call.response.index = None <=> Len(Items) = 0)
        /\ (Len(Items) > 0 => call.response.index >= 0)

\* The sorted matches of the page query of the last call.
PageMatches ==
    SortedList(Find(store, PageExpressions(ListQuery(filtering), Orderings, call.locals.cursor_in)),
               Orderings)
\* The items of the last page in the order the store returned them.
FetchedItems == IF reversed THEN Reverse(Items) ELSE Items

\* C4: limit + 1 documents are requested; hasNext is true exactly when
\* limit + 1 came back, the list is then cut to its first limit documents
\* and otherwise returned whole; a page never has more than limit items.
C4_LimitPlusOneProbe ==
    Called =>
        LET matches == PageMatches
        IN  /\ call.locals.fetched = Min2(limit + 1, Len(matches))
            /\ call.locals.has_next_page <=> call.locals.fetched = limit + 1
            /\ FetchedItems = SubSeq(matches, 1, Min2(limit, Len(matches)))
            /\ Len(Items) <= limit

C4_Witness ==
    /\ Called /\ call.locals.has_next_page
    /\ call.locals.fetched = limit + 1 /\ Len(Items) = limit
    /\ Len(PageMatches) > limit + 1

C7_Witness ==
    /\ Called /\ Len(Items) = 0 /\ call.locals.cursor_in # <<>>
    /\ call.response.index = None

\* C8: every item of every page satisfies the base filter, and the count
\* behind the index counts only documents that satisfy the base filter.
C8_BaseFilterIsAnded ==
    Called =>
        /\ \A i \in 1..Len(Items) : Items[i] \in Matching
        /\ call.locals.cursor_in # <<>> =>
              call.locals.counted =
                  Cardinality({d \in Matching :
                      Matches(get_filter([i \in 1..Len(Orderings) |-> Invert(Orderings[i])],
                                         call.locals.cursor_in, TRUE), d)})

C8_Witness ==
    /\ Called /\ Len(filtering) > 0 /\ call.locals.cursor_in # <<>> /\ Len(Items) > 0
    /\ \E d \in store \ Matching :
          /\ Matches(get_filter(Orderings, call.locals.cursor_in, FALSE), d)
    /\ \E d \in store \ Matching :
          Matches(get_filter([i \in 1..Len(Orderings) |-> Invert(Orderings[i])],
                             call.locals.cursor_in, TRUE), d)

\* C9: for a nullable, non-identifier sort field and a non-null cursor
\* value the per-field clause is (field IS NULL) OR (comparison), whether
\* the field is ascending or descending.
C9_NullableClauseIsRelaxed ==
    (Called /\ call.locals.cursor_in # <<>>) =>
        \A i \in 1..Len(Orderings) :
            LET name == Orderings[i].name
                direction == Orderings[i].direction
                cursor == call.locals.cursor_in[i]
            IN  (IsNullable(name) /\ ~cursor.value.isNone) =>
                    _prepare_current_clause(name, direction, cursor, FALSE)
                        = Or(<<Eq(name, None),
                               set_operator(name, Scalar(cursor.value.text), direction)>>)

\* The same for ascending fields only.
NullableClauseIsRelaxedAscending ==
    (Called /\ call.locals.cursor_in # <<>>) =>
        \A i \in 1..Len(Orderings) :
            LET name == Orderings[i].name
                cursor == call.locals.cursor_in[i]
            IN  (IsNullable(name) /\ ~cursor.value.isNone /\ Orderings[i].direction = ASCENDING) =>
                    _prepare_current_clause(name, ASCENDING, cursor, FALSE)
                        = Or(<<Eq(name, None), GT(name, cursor.value.text)>>)

\* Nulls last: by n ascending with null after every number, then by id.
NullsLastBefore(d1, d2) ==
    \/ d1.n # None /\ d2.n = None
    \/ d1.n # None /\ d2.n # None /\ d1.n < d2.n
    \/ d1.n = d2.n /\ d1.id < d2.id
NullsLastOrdered ==
    [i \in 1..Cardinality(Matching) |->
        CHOOSE d \in Matching : Cardinality({e \in Matching : NullsLastBefore(e, d)}) = i - 1]

\* C10: paginating ascending by the nullable field returns every document
\* exactly once, the non-null values first in numeric order, then the nulls.
C10_AscendingNullsLast ==
    (sorting = <<SortableField("n", ASCENDING)>> /\ ~reversed /\ pc = "done") =>
        result = Ids(NullsLastOrdered)

\* Descending with nulls last: by n descending with null after every number,
\* then by id descending.
NullsLastDescendingBefore(d1, d2) ==
    \/ d1.n # None /\ d2.n = None
    \/ d1.n # None /\ d2.n # None /\ d1.n > d2.n
    \/ d1.n = d2.n /\ d1.id > d2.id
NullsLastDescendingOrdered ==
    [i \in 1..Cardinality(Matching) |->
        CHOOSE d \in Matching :
            Cardinality({e \in Matching : NullsLastDescendingBefore(e, d)}) = i - 1]

\* C11: paginating descending by the nullable field returns every document
\* exactly once, the null values after the non-null ones, and a page that
\* continues from a cursor whose value for the field is null holds no
\* document with a non-null value.
C11_DescendingNullsLast ==
    (sorting = <<SortableField("n", DESCENDING)>> /\ ~reversed /\ Called) =>
        /\ pc = "done" => result = Ids(NullsLastDescendingOrdered)
        /\ (call.locals.cursor_in # <<>> /\ call.locals.cursor_in[1].value.isNone) =>
               \A i \in 1..Len(Items) : Items[i].n = None

\* C12: a page request whose limit is zero or negative fails with
\* InvalidLimitError and returns no page response.
C12_InvalidLimitFails ==
    (pc # "start" /\ limit <= 0) =>
        /\ call.error = "InvalidLimitError"
        /\ call.response = NoResponse

\* A token fits a sort specification when it has one entry per field of the
\* specification and names no other field.
Malformed(token, field_orderings) ==
    /\ token # <<>>
    /\ \/ Len(token) # Len(field_orderings)
       \/ \E i \in 1..Len(token) :
              token[i].name \notin {field_orderings[j].name : j \in 1..Len(field_orderings)}

HasUnknownSortField == \E i \in 1..Len(Orderings) : Orderings[i].name \notin FieldNames
Returned == pc \in {"paging", "resumed", "done", "failed"}

\* C14: when a field of the sort specification is no attribute of the
\* model, get_page fails with the unknown-sort-field error, before any
\* filter is built and before any query or count is executed.
C14_UnknownSortFieldFails ==
    (Returned /\ HasUnknownSortField) =>
        /\ call.error = "InvalidEnumFieldError"
        /\ ~call.locals.filter_built
        /\ call.locals.queries = 0

\* C14 as the code has it: the incoming cursor is parsed before the sort is
\* converted, so a malformed cursor is rejected first, with
\* MalformedCursorError; without a cursor, or with a well-formed one, the
\* call fails with the unknown-sort-field error.  Either way no filter is
\* built, no query or count is executed and no response is returned.
C14_UnknownSortFieldFailsAfterCursor ==
    (Returned /\ HasUnknownSortField) =>
        /\ call.error = IF Malformed(next_, Orderings)
                            THEN "MalformedCursorError"
                            ELSE "InvalidEnumFieldError"
        /\ ~call.locals.filter_built
        /\ call.locals.queries = 0
        /\ call.response = NoResponse

C14_Witness ==
    /\ pc = "failed" /\ HasUnknownSortField /\ next_ = <<>>
    /\ call.error = "InvalidEnumFieldError" /\ call.locals.queries = 0
    /\ Cardinality(store) > 0

\* A strategy is registered when it names a member of the enum, as the
\* member or as a string, that the mapping holds.
Registered(requested) == requested.name \in PAGINATION_MAPPING

\* C15: get_paginator fails with the bad-request strategy error for every
\* strategy that is not registered, given as an enum member or as a string
\* that names no strategy, and returns a paginator class only for a
\* registered strategy.
C15_UnregisteredStrategyFails ==
    Returned =>
        /\ ~Registered(strategy) =>
              /\ call.error = "FuriousAPIError"
              /\ call.response = NoResponse
        /\ get_paginator(strategy).paginator # "" => Registered(strategy)

\* The same for strategies given as enum members only.
UnregisteredMemberFails ==
    (Returned /\ strategy.isEnum /\ ~Registered(strategy)) =>
        call.error = "FuriousAPIError" /\ call.response = NoResponse

\* The last call continued from a cursor in reverse mode and returned items.
ReverseContinuation ==
    reversed /\ Called /\ call.locals.cursor_in # <<>> /\ Len(Items) > 0
\* c: the matching documents that the inverted-order filter of the cursor
\* selects.
InvertedCount ==
    Cardinality({d \in Matching :
        Matches(get_filter([i \in 1..Len(Orderings) |-> Invert(Orderings[i])],
                           call.locals.cursor_in, TRUE), d)})

C17_NextEncodesLastItem ==
    (Called /\ call.response.next # <<>>) =>
        /\ Len(Items) > 0
        /\ Len(call.response.next) = Len(Orderings)
        /\ \A i \in 1..Len(Orderings) :
              /\ call.response.next[i].name = Orderings[i].name
              /\ cast(get_model_field_hint(Orderings[i].name), call.response.next[i].value)
                    = Items[Len(Items)][Orderings[i].name]

\* A reversed page of several items with a next token, whose first and last
\* items differ in a sort field.
C17_Witness ==
    /\ Called /\ reversed /\ call.response.next # <<>> /\ Len(Items) >= 2
    /\ make_cursor(Items[1], Orderings) # make_cursor(Items[Len(Items)], Orderings)
    /\ \E i \in 1..Len(Orderings) : Items[Len(Items)][Orderings[i].name] = None

\* The answer of the simple cursor paginator to the request of the last
\* call: same store, base query, sort, limit, token and mode.
SimplePage(countAppliesLimit) ==
    BeanieCursorPagination_get_page(
        store, ListQuery(filtering),
        IF Len(sorting) = 0 THEN <<SortableField("id", ASCENDING)>> ELSE sorting,
        limit, call.locals.cursor_in, reversed, countAppliesLimit)

\* C18: for the same query, sort specification, limit, incoming token and
\* mode the simple cursor paginator and the Relay paginator return the same
\* items, index, total and next token.
C18_PaginatorsAgree ==
    Called =>
        \E countAppliesLimit \in BOOLEAN :
            LET simple == SimplePage(countAppliesLimit)
            IN  simple.error = call.error /\ simple.response = call.response

C18_Witness ==
    /\ Called /\ reversed /\ call.locals.cursor_in # <<>>
    /\ call.response.next # <<>> /\ Len(Items) >= 1 /\ call.response.index # None
    /\ SimplePage(FALSE).response.next = call.response.next

\* C19: exists(id) returns True when a document with that id is stored;
\* when none is stored it raises EntityNotFoundError if should_error is set
\* and returns False otherwise; the store is the same after the call.
C19_Exists ==
    [][crud'.name = "exists" =>
        LET stored == \E d \in store : d.id = crud'.arg.value
        IN  /\ store' = store
            /\ stored => (crud'.returned = <<TRUE>> /\ crud'.error = "")
            /\ (~stored /\ crud'.should_error) =>
                  (crud'.returned = <<>> /\ crud'.error = "EntityNotFoundError")
            /\ (~stored /\ ~crud'.should_error) =>
                  (crud'.returned = <<FALSE>> /\ crud'.error = "")]_vars

C19_Witness ==
    /\ crud.name = "exists" /\ crud.should_error /\ crud.error = "EntityNotFoundError"
    /\ crud.arg.value \in DocIds /\ store # {}

RECURSIVE Written(_, _)
Written(bulk, k) ==
    /\ \A d \in store : ~Conflicts(d, bulk[k], unique_keys)
    /\ \A j \in 1..(k - 1) : Written(bulk, j) => ~Conflicts(bulk[j], bulk[k], unique_keys)

\* The response of a bulk_create step answers the bulk position by position.
AnswersInPlace(bulk, response) ==
    /\ response.error = ""
    /\ Len(response.items) = Len(bulk)
    /\ \A k \in 1..Len(bulk) :
          IF Written(bulk, k)
              THEN response.items[k] = BulkItemSuccess(bulk[k].id)
              ELSE response.items[k].status = "ERROR"
    /\ response.has_errors <=> \E k \in 1..Len(bulk) : ~Written(bulk, k)

\* C21: bulk_create returns one item per input document at the position of
\* the input, OK with the id for a document that was written and ERROR for
\* one whose write failed, for any subset and any reported order of write
\* errors; has_errors is true exactly when a write failed.
C21_BulkAnswersInPlace ==
    [][crud'.name = "bulk_create" => AnswersInPlace(crud'.arg, crud'.returned[1])]_vars

\* Write errors were reported in the order of their indexes.
ReportedAscending(response) ==
    \A i, j \in 1..Len(response.error_indexes) :
        i < j => response.error_indexes[i] < response.error_indexes[j]

\* The same for a model without a unique index whose write errors are
\* reported in the order of their indexes.
BulkAnswersInPlaceById ==
    [][(crud'.name = "bulk_create" /\ unique_keys = <<>> /\ ReportedAscending(crud'.returned[1]))
          => AnswersInPlace(crud'.arg, crud'.returned[1])]_vars

\* The same statement for a model with a unique index; it does not hold,
\* the single And of _get_bulk_query_by_unique_index finds no document as
\* soon as two written documents differ in the key.
BulkAnswersInPlaceByUniqueIndex ==
    [][(crud'.name = "bulk_create" /\ unique_keys # <<>> /\ ReportedAscending(crud'.returned[1]))
          => AnswersInPlace(crud'.arg, crud'.returned[1])]_vars

\* The field names of a projection list, and of the sort the call pages by.
ProjectionNames(entries) == {entries[k].name : k \in 1..Len(entries)}
SortNames == {Orderings[k].name : k \in 1..Len(Orderings)}

\* A list step with a projection that returns items.
ProjectedPage == projection # <<>> /\ call'.error = "" /\ Len(call'.response.items) > 0

\* C22: for list called with a projection, every returned item contains
\* each field named in the projection, and the number of fields of an item
\* equals the number of entries of the projection list (as it was passed
\* or as it is after the call).
C22_ProjectedFields ==
    [][ProjectedPage =>
          /\ ProjectionNames(projection) \subseteq returned_model'
          /\ Cardinality(returned_model') \in {Len(projection), Len(projection')}]_vars

\* C22, amended: the fields of a returned item are the fields named in the
\* projection, the fields of the sort order (id without a sorting) and,
\* under cursor pagination, id; nothing else.
C22_ProjectedFieldsWithSortAndId ==
    [][ProjectedPage =>
          returned_model' = ProjectionNames(projection) \cup SortNames \cup {"id"}]_vars

\* A page of items that carry id although neither the projection nor the
\* sorting names it.
C22_Witness ==
    /\ Called /\ call.error = "" /\ Len(Items) > 0
    /\ projection # <<>>
    /\ "id" \in returned_model
    /\ "id" \notin ProjectionNames(projection)

\* C26: list leaves the caller's projection and sorting lists as they were.
C26_ArgumentsUnchanged ==
    [][projection' = projection /\ sorting' = sorting]_vars

\* The sorting list is left alone in every step.
SortingUnchanged == [][sorting' = sorting]_vars

\* The last call continued from a cursor that holds a null value.
NullBoundary ==
    /\ Called /\ call.error = "" /\ call.locals.cursor_in # <<>>
    /\ \E i \in 1..Len(call.locals.cursor_in) : call.locals.cursor_in[i].value.isNone

\* In index-query mode the clause of every null cursor value matches the
\* documents that have a value in the field, and no other.
NullIndexClauseMatchesNonNull ==
    NullBoundary =>
        \A i \in 1..Len(call.locals.cursor_in) :
            LET cursor == call.locals.cursor_in[i]
                field == Invert(Orderings[i])
                clause == _prepare_current_clause(field.name, field.direction, cursor, TRUE)
            IN  cursor.value.isNone =>
                    \A d \in Documents : Matches(clause, d) <=> d[field.name] # None

\* C23: in index-query mode the clause of a null cursor value matches
\* exactly the documents whose field is not null, and with it the index of
\* a page that follows a null-valued boundary is the number of documents
\* returned on the earlier pages.
C23_NullBoundaryIndex ==
    /\ NullIndexClauseMatchesNonNull
    /\ (~reversed /\ NullBoundary /\ Len(Items) > 0) =>
            call.response.index = Len(result) - Len(Items)

\* ceil(n / d), and the stored document a cursor was made from.
CeilDiv(n, d) == (n + d - 1) \div d
DocOf(cursor) == CHOOSE d \in store : make_cursor(d, Orderings) = cursor

\* A call that continued from a cursor and returned a next token: the token
\* is the cursor of a document sorted strictly after the incoming one.
NextIsStrictlyAfter ==
    (Called /\ call.locals.cursor_in # <<>> /\ call.response.next # <<>>) =>
        SortsBefore(DocOf(call.locals.cursor_in), DocOf(call.response.next), Orderings)

\* The bound on the calls of the loop: ceil(N / limit) for N matching
\* documents, and the one call that is made when nothing matches.
CallBound == Max2(1, CeilDiv(Cardinality(Matching), limit))

\* C25: the client loop of list calls (a paginator that is not reversed)
\* over N matching documents ends after at most ceil(N / limit) calls, and
\* every next token lies strictly after the cursor of the call that
\* returned it.
C25_LoopEnds ==
    ~reversed =>
        /\ calls <= CallBound
        /\ NextIsStrictlyAfter

\* The same for sort orders without the nullable field; a call that
\* returns a next token was made below the bound.
LoopEndsWithoutNullable ==
    (~reversed /\ ~SortsByNullable) =>
        /\ calls <= CallBound
        /\ pc = "paging" => calls < CallBound
        /\ NextIsStrictlyAfter

\* The next token lies after the incoming cursor for every sort order.
NextIsStrictlyAfterForward == ~reversed => NextIsStrictlyAfter

\* The outcome of the list call of a request when nothing else runs.
Alone(req) ==
    Repository_list(store, filtering, req.sorting, req.limit, req.token, FALSE, strategy,
                    req.countAppliesLimit)

\* C24: a request that was interleaved with another one at its awaits
\* returns the response it returns when it runs alone.
C24_RequestsAreIsolated ==
    \A r \in DOMAIN requests :
        requests[r].pc \in {"done", "failed"} =>
            /\ requests[r].response = Alone(requests[r]).response
            /\ requests[r].error = Alone(requests[r]).error

\* The first request has returned a page from a cursor while the second,
\* begun in between with another limit, waits for its total count.
C24_Witness ==
    /\ DOMAIN requests = Requesters
    /\ requests["r1"].pc = "done"
    /\ requests["r1"].cursor_in # <<>>
    /\ Len(requests["r1"].response.items) > 0
    /\ requests["r2"].pc = "total_count"
    /\ requests["r2"].limit # requests["r1"].limit

====
